---- MODULE Spec2Model ----
(***************************************************************************)
(* A model of src/src/ulc.rs: the untyped lambda calculus with named       *)
(* terms, the nameless (de Bruijn) conversion used for comparison,         *)
(* substitution with a process-wide fresh-identifier counter, one-step     *)
(* reduction, reduction to a fixed point, and the Church-numeral helpers.  *)
(*                                                                         *)
(* Terms are tuples whose first element is the variant's tag:              *)
(*   Expr::Lam(id, e)  <<"Lam", id, e>>      DeBrujin::Lam(d)  <<"Lam", d>> *)
(*   Expr::App(m, n)   <<"App", m, n>>       DeBrujin::App     <<"App",..>> *)
(*   Expr::Var(id)     <<"Var", id>>         DeBrujin::Var(n)  <<"Var", n>> *)
(* Identifiers are strings.  A panic is the value PANIC.                   *)
(***************************************************************************)
EXTENDS Integers, Sequences, FiniteSets, TLC

VARIABLES
    COUNTER,    \* the static AtomicU32
    op,         \* the operation the caller runs
    pc,         \* where that operation stands
    self,       \* the term the operation is called on
    arg_id,     \* substitution's identifier argument
    arg_e,      \* the second term argument (replacement / other)
    c0,         \* COUNTER when the operation was called
    expr,       \* full_reduction's local expr
    expr2,      \* full_reduction's local expr2
    steps,      \* iterations of full_reduction's loop taken so far
    call,       \* 1 in the first full_reduction call, 2 in the call on its result
    first,      \* what the first full_reduction call returned
    result,     \* what the operation returned
    nums,       \* the two naturals of the addition example
    numeral,    \* what to_numeral returned
    tpc,        \* per thread: position inside fresh()
    tc,         \* per thread: the local c of fresh()
    tret        \* per thread: the identifiers its fresh() calls returned

vars == <<COUNTER, op, pc, self, arg_id, arg_e, c0, expr, expr2, steps, call,
          first, result, nums, numeral, tpc, tc, tret>>

(***************************************************************************)
(* Term constructors.                                                      *)
(***************************************************************************)
Lam(id, e) == <<"Lam", id, e>>
App(m, n) == <<"App", m, n>>
Var(id) == <<"Var", id>>

DLam(d) == <<"Lam", d>>
DApp(d1, d2) == <<"App", d1, d2>>
DVar(n) == <<"Var", n>>

PANIC == <<"Panic">>
IsPanic(v) == v[1] = "Panic"
NONE == <<"None">>

apply(a, other) == App(a, other)
lambda(id, e) == Lam(id, e)
var(id) == Var(id)

(***************************************************************************)
(* fresh(): the counter is a u32; the identifier is "v" followed by the    *)
(* decimal digits of the value read.                                       *)
(***************************************************************************)
Digit == <<"0", "1", "2", "3", "4", "5", "6", "7", "8", "9">>

RECURSIVE Decimal(_)
Decimal(n) == IF n < 10 THEN Digit[n + 1]
              ELSE Decimal(n \div 10) \o Digit[(n % 10) + 1]

\* format!("v{c}")
FormatV(c) == "v" \o Decimal(c)

\* COUNTER.fetch_add(1): the new value of the counter.  The AtomicU32 wraps at
\* 2^32, which is beyond the integers TLC represents; the counters followed here
\* stay below MaxCounter plus the number of fresh() calls of one operation.
fetch_add(c) == c + 1

\* fresh() run without interruption from counter value c:
\* the identifier returned and the counter afterwards
fresh(c) == [id |-> FormatV(fetch_add(c)), c |-> fetch_add(c)]

(***************************************************************************)
(* fv: the free variables, as the Vec the code builds.                     *)
(***************************************************************************)
contains(vec, x) == \E i \in DOMAIN vec : vec[i] = x

retain_ne(vec, id) == SelectSeq(vec, LAMBDA x : x # id)

RECURSIVE fv(_)
fv(e) ==
    IF e[1] = "Lam" THEN retain_ne(fv(e[3]), e[2])
    ELSE IF e[1] = "App" THEN fv(e[2]) \o fv(e[3])
    ELSE <<e[2]>>

(***************************************************************************)
(* debrujin_with: ctx.iter().position(|x| x == id) is the index of the     *)
(* FIRST element of ctx equal to id, counted from 0.                       *)
(***************************************************************************)
position(ctx, id) ==
    IF contains(ctx, id)
    THEN (CHOOSE i \in DOMAIN ctx :
              ctx[i] = id /\ \A j \in DOMAIN ctx : ctx[j] = id => i <= j) - 1
    ELSE -1

RECURSIVE debrujin_with(_, _)
debrujin_with(e, ctx) ==
    IF e[1] = "Lam" THEN
        LET d == debrujin_with(e[3], Append(ctx, e[2]))
        IN  IF IsPanic(d) THEN PANIC ELSE DLam(d)
    ELSE IF e[1] = "App" THEN
        LET d1 == debrujin_with(e[2], ctx)
        IN  IF IsPanic(d1) THEN PANIC
            ELSE LET d2 == debrujin_with(e[3], ctx)
                 IN  IF IsPanic(d2) THEN PANIC ELSE DApp(d1, d2)
    ELSE
        IF position(ctx, e[2]) >= 0 THEN DVar(position(ctx, e[2])) ELSE PANIC

debrujin(e) == debrujin_with(e, <<>>)

\* self.debrujin() == other.debrujin(), when neither conversion panics
exact_equivalence(a, b) == debrujin(a) = debrujin(b)

\* the comparison panics when either conversion does
exact_equivalence_panics(a, b) == IsPanic(debrujin(a)) \/ IsPanic(debrujin(b))

(***************************************************************************)
(* substitution: returns the term and the counter after the fresh() calls  *)
(* it made, in the order the code makes them.                              *)
(***************************************************************************)
\* substitution with the App case substituting into the function part only
RECURSIVE substitution_left_only(_, _, _, _)
substitution_left_only(t, id_, e, c) ==
    IF t[1] = "Lam" THEN
        IF t[2] = id_ THEN [e |-> t, c |-> c]
        ELSE IF ~contains(fv(e), t[2]) THEN
            LET r == substitution_left_only(t[3], id_, e, c)
            IN  [e |-> Lam(t[2], r.e), c |-> r.c]
        ELSE
            LET nid == fresh(c)
                r1 == substitution_left_only(t[3], t[2], Var(nid.id), nid.c)
                r2 == substitution_left_only(r1.e, t[2], e, r1.c)
            IN  [e |-> Lam(nid.id, r2.e), c |-> r2.c]
    ELSE IF t[1] = "App" THEN
        LET r1 == substitution_left_only(t[2], id_, e, c)
        IN  [e |-> App(r1.e, t[3]), c |-> r1.c]
    ELSE
        IF id_ = t[2] THEN [e |-> e, c |-> c] ELSE [e |-> t, c |-> c]

RECURSIVE substitution(_, _, _, _)
substitution(t, id_, e, c) ==
    IF t[1] = "Lam" THEN
        IF t[2] = id_ THEN [e |-> t, c |-> c]
        ELSE IF ~contains(fv(e), t[2]) THEN
            LET r == substitution(t[3], id_, e, c)
            IN  [e |-> Lam(t[2], r.e), c |-> r.c]
        ELSE
            LET nid == fresh(c)
                r1 == substitution(t[3], t[2], Var(nid.id), nid.c)
                r2 == substitution(r1.e, t[2], e, r1.c)
            IN  [e |-> Lam(nid.id, r2.e), c |-> r2.c]
    ELSE IF t[1] = "App" THEN
        LET r1 == substitution(t[2], id_, e, c)
            r2 == substitution(t[3], id_, e, r1.c)
        IN  [e |-> App(r1.e, r2.e), c |-> r2.c]
    ELSE
        IF id_ = t[2] THEN [e |-> e, c |-> c] ELSE [e |-> t, c |-> c]

(***************************************************************************)
(* reduction: one step.                                                    *)
(***************************************************************************)
RECURSIVE reduction(_, _)
reduction(t, c) ==
    IF t[1] = "Lam" THEN
        LET r == reduction(t[3], c)
        IN  [e |-> Lam(t[2], r.e), c |-> r.c]
    ELSE IF t[1] = "App" THEN
        LET mr == reduction(t[2], c)
            nr == reduction(t[3], mr.c)
        IN  IF mr.e[1] = "Lam"
            THEN substitution(mr.e[3], mr.e[2], nr.e, nr.c)
            ELSE [e |-> App(mr.e, nr.e), c |-> nr.c]
    ELSE [e |-> t, c |-> c]

(***************************************************************************)
(* to_app_vec and to_numeral.                                              *)
(***************************************************************************)
RECURSIVE to_app_vec(_)
to_app_vec(e) ==
    IF e[1] = "App" THEN to_app_vec(e[2]) \o to_app_vec(e[3]) ELSE <<e>>

\* [ok |-> TRUE, n |-> count], or [ok |-> FALSE, n |-> 0] for panic!("Not a numeral")
NotANumeral == [ok |-> FALSE, n |-> 0]

to_numeral(e) ==
    IF e[1] = "Lam" /\ e[3][1] = "Lam" THEN
        IF e[2] = "f" /\ e[3][2] = "x" THEN
            LET appvec == to_app_vec(e[3][3])
                init == SubSeq(appvec, 1, Len(appvec) - 1)
            IN  IF appvec[Len(appvec)] = Var("x") THEN
                    IF \A i \in DOMAIN init : init[i] = Var("f")
                    THEN [ok |-> TRUE, n |-> Len(init)]
                    ELSE NotANumeral
                ELSE NotANumeral
        ELSE NotANumeral
    ELSE NotANumeral

(***************************************************************************)
(* lcterms: to_church and add.                                             *)
(***************************************************************************)
RECURSIVE fold_f(_, _)
fold_f(n, acc) == IF n = 0 THEN acc ELSE fold_f(n - 1, apply(Var("f"), acc))

to_church(n) == Lam("f", Lam("x", fold_f(n, Var("x"))))

succ ==
    lambda("n", lambda("f", lambda("x",
        apply(var("f"), apply(apply(var("n"), var("f")), var("x"))))))

\* add with the second summand left out: λn m f x. n f x
add_drops_m ==
    lambda("n", lambda("m", lambda("f", lambda("x",
        apply(apply(var("n"), var("f")), var("x"))))))

add ==
    lambda("n", lambda("m", lambda("f", lambda("x",
        apply(apply(var("n"), var("f")),
              apply(apply(var("m"), var("f")), var("x")))))))

(***************************************************************************)
(* Bounds and input sets.                                                  *)
(***************************************************************************)
MaxCounter == 1     \* COUNTER when the operation is called: 0..MaxCounter
MaxSize == 4        \* nodes of the terms substitution gets
MaxEqSize == 3      \* nodes of the terms exact_equivalence gets
MaxReplSize == 2    \* nodes of substitution's replacement term
MaxFullSize == 6    \* nodes of the generated terms full_reduction gets
MaxNumSize == 7     \* nodes of the terms to_numeral gets
MaxSteps == 4       \* iterations of full_reduction's loop the model follows
MaxNum == 7         \* the addition example adds m, n in 0..MaxNum
MaxCalls == 2       \* fresh() calls per thread

Threads == {"t1", "t2"}

SubstNames == {"x", "y", "v1"}
EqNames == {"x", "a", "b"}
FullNames == {"x", "y", "v1"}
NumNames == {"f", "x"}

RECURSIVE TermsOfSize(_, _)
TermsOfSize(n, names) ==
    IF n = 1 THEN {Var(x) : x \in names}
    ELSE {Lam(x, b) : x \in names, b \in TermsOfSize(n - 1, names)}
         \cup UNION {{App(a, b) : a \in TermsOfSize(i, names),
                                  b \in TermsOfSize(n - 1 - i, names)} :
                     i \in 1 .. (n - 2)}

TermsUpTo(n, names) == UNION {TermsOfSize(k, names) : k \in 1 .. n}

SelfApp(x) == Lam(x, App(Var(x), Var(x)))
\* (λx. x x) (λx. x x)
Omega == App(SelfApp("x"), SelfApp("x"))
\* (λx. x x) (λy. y y)
OmegaXY == App(SelfApp("x"), SelfApp("y"))
SelfApp3 == Lam("x", App(App(Var("x"), Var("x")), Var("x")))
\* (λx. x x x) (λx. x x x)
Omega3 == App(SelfApp3, SelfApp3)
\* λy. ((λx. λy. x) y)
ConstUnderBinder == Lam("y", App(Lam("x", Lam("y", Var("x"))), Var("y")))

\* main, line 454: let onep = lcterms::succ().apply(&zero)
Onep == apply(succ, to_church(0))
\* λz. ((λx. x z) (λy. y)): the outer step leaves a redex for the next one
TwoStep ==
    Lam("z", App(Lam("x", App(Var("x"), Var("z"))), Lam("y", Var("y"))))

\* λx. λy. ((λx. λy. x) y): the step renames the inner binder y
RenameUnderBinder ==
    Lam("x", Lam("y", App(Lam("x", Lam("y", Var("x"))), Var("y"))))
\* λv1. λy. ((λx. λy. v1) y): the step renames y while v1 is in use
RenameNearV1 ==
    Lam("v1", Lam("y", App(Lam("x", Lam("y", Var("v1"))), Var("y"))))

FullInputs ==
    TermsUpTo(MaxFullSize, FullNames)
        \cup {Omega, OmegaXY, Omega3, ConstUnderBinder, Onep, TwoStep,
              RenameUnderBinder, RenameNearV1}

Idle == [t \in Threads |-> "idle"]
NoLocal == [t \in Threads |-> 0]
NoRet == [t \in Threads |-> <<>>]

(***************************************************************************)
(* Initial states: one per operation and input.                            *)
(***************************************************************************)
InitCommon ==
    /\ pc = "call"
    /\ c0 = COUNTER
    /\ expr = NONE /\ expr2 = NONE /\ steps = 0 /\ call = 1 /\ first = NONE
    /\ result = NONE /\ numeral = NONE
    /\ tpc = Idle /\ tc = NoLocal /\ tret = NoRet

InitSubst ==
    /\ op = "substitution"
    /\ COUNTER \in 0 .. MaxCounter
    /\ self \in TermsUpTo(MaxSize, SubstNames)
    /\ arg_id \in SubstNames
    /\ arg_e \in TermsUpTo(MaxReplSize, SubstNames)
    /\ nums = NONE
    /\ InitCommon

InitEquiv ==
    /\ op = "exact_equivalence"
    /\ COUNTER \in 0 .. MaxCounter
    /\ self \in TermsUpTo(MaxEqSize, EqNames)
    /\ arg_id = ""
    /\ arg_e \in TermsUpTo(MaxEqSize, EqNames)
    /\ nums = NONE
    /\ InitCommon

InitFull ==
    /\ op = "full_reduction"
    /\ COUNTER \in 0 .. MaxCounter
    /\ self \in FullInputs
    /\ arg_id = "" /\ arg_e = NONE /\ nums = NONE
    /\ InitCommon

InitNum ==
    /\ op = "to_numeral"
    /\ COUNTER \in 0 .. MaxCounter
    /\ self \in TermsUpTo(MaxNumSize, NumNames)
    /\ arg_id = "" /\ arg_e = NONE /\ nums = NONE
    /\ InitCommon

InitAdd ==
    /\ op = "add"
    /\ COUNTER \in 0 .. MaxCounter
    /\ nums \in (0 .. MaxNum) \X (0 .. MaxNum)
    /\ self = apply(apply(add, to_church(nums[1])), to_church(nums[2]))
    /\ arg_id = "" /\ arg_e = NONE
    /\ InitCommon

InitFresh ==
    /\ op = "fresh"
    /\ COUNTER \in 0 .. MaxCounter
    /\ self = NONE /\ arg_id = "" /\ arg_e = NONE /\ nums = NONE
    /\ InitCommon

(***************************************************************************)
(* Actions.                                                                *)
(***************************************************************************)
\* self.substitution(&arg_id, &arg_e)
Substitution ==
    /\ op = "substitution" /\ pc = "call"
    /\ LET r == substitution(self, arg_id, arg_e, COUNTER)
       IN  result' = r.e /\ COUNTER' = r.c
    /\ pc' = "done"
    /\ UNCHANGED <<op, self, arg_id, arg_e, c0, expr, expr2, steps, call, first,
                   nums, numeral, tpc, tc, tret>>

\* self.exact_equivalence(&arg_e)
ExactEquivalence ==
    /\ op = "exact_equivalence" /\ pc = "call"
    /\ IF exact_equivalence_panics(self, arg_e)
       THEN result' = PANIC /\ pc' = "panic"
       ELSE result' = exact_equivalence(self, arg_e) /\ pc' = "done"
    /\ UNCHANGED <<COUNTER, op, self, arg_id, arg_e, c0, expr, expr2, steps, call,
                   first, nums, numeral, tpc, tc, tret>>

\* full_reduction, lines 148-149: let mut expr = self.clone();
\*                                let mut expr2 = expr.reduction();
\* (in the second call the receiver is what the first call returned)
FullStart ==
    /\ op \in {"full_reduction", "add"} /\ pc = "call"
    /\ LET recv == IF call = 1 THEN self ELSE first
           r == reduction(recv, COUNTER)
       IN  expr' = recv /\ expr2' = r.e /\ COUNTER' = r.c
    /\ pc' = "test"
    /\ UNCHANGED <<op, self, arg_id, arg_e, c0, steps, call, first, result, nums,
                   numeral, tpc, tc, tret>>

\* FullWhile with the two statements of the loop body in the other order:
\* expr2 = expr.reduction() before expr = expr2
FullWhileSwapped ==
    /\ op \in {"full_reduction", "add"} /\ pc = "test"
    /\ IF exact_equivalence_panics(expr, expr2)
       THEN pc' = "panic" /\ UNCHANGED <<expr, expr2, COUNTER, steps>>
       ELSE IF ~exact_equivalence(expr, expr2)
       THEN /\ steps < MaxSteps
            /\ LET r == reduction(expr, COUNTER)
               IN  expr' = expr2 /\ expr2' = r.e /\ COUNTER' = r.c
            /\ steps' = steps + 1
            /\ pc' = "test"
       ELSE pc' = "return" /\ UNCHANGED <<expr, expr2, COUNTER, steps>>
    /\ UNCHANGED <<op, self, arg_id, arg_e, c0, call, first, result, nums, numeral,
                   tpc, tc, tret>>

\* full_reduction, lines 150-153: the while condition and, when it holds, the body
FullWhile ==
    /\ op \in {"full_reduction", "add"} /\ pc = "test"
    /\ IF exact_equivalence_panics(expr, expr2)
       THEN pc' = "panic" /\ UNCHANGED <<expr, expr2, COUNTER, steps>>
       ELSE IF ~exact_equivalence(expr, expr2)
       THEN /\ steps < MaxSteps
            /\ LET r == reduction(expr2, COUNTER)
               IN  expr' = expr2 /\ expr2' = r.e /\ COUNTER' = r.c
            /\ steps' = steps + 1
            /\ pc' = "test"
       ELSE pc' = "return" /\ UNCHANGED <<expr, expr2, COUNTER, steps>>
    /\ UNCHANGED <<op, self, arg_id, arg_e, c0, call, first, result, nums, numeral,
                   tpc, tc, tret>>

\* full_reduction, line 154: expr
FullReturn ==
    /\ op \in {"full_reduction", "add"} /\ pc = "return"
    /\ result' = expr
    /\ pc' = "done"
    /\ UNCHANGED <<COUNTER, op, self, arg_id, arg_e, c0, expr, expr2, steps, call,
                   first, nums, numeral, tpc, tc, tret>>

\* the caller applies full_reduction to what full_reduction returned
CallAgain ==
    /\ op = "full_reduction" /\ pc = "done" /\ call = 1
    /\ first' = result
    /\ call' = 2
    /\ steps' = 0
    /\ pc' = "call"
    /\ expr' = NONE /\ expr2' = NONE /\ result' = NONE
    /\ UNCHANGED <<COUNTER, op, self, arg_id, arg_e, c0, nums, numeral, tpc, tc, tret>>

\* to_numeral on self, or (main, lines 488-495) on what full_reduction returned
ToNumeral ==
    /\ \/ op = "to_numeral" /\ pc = "call"
       \/ op = "add" /\ pc = "done"
    /\ numeral' = to_numeral(IF op = "add" THEN result ELSE self)
    /\ pc' = "decoded"
    /\ UNCHANGED <<COUNTER, op, self, arg_id, arg_e, c0, expr, expr2, steps, call,
                   first, result, nums, tpc, tc, tret>>

\* fresh(), line 7, in thread t: COUNTER.fetch_add(1, SeqCst)
FetchAdd(t) ==
    /\ op = "fresh" /\ tpc[t] = "idle" /\ Len(tret[t]) < MaxCalls
    /\ COUNTER' = fetch_add(COUNTER)
    /\ tpc' = [tpc EXCEPT ![t] = "added"]
    /\ UNCHANGED <<op, pc, self, arg_id, arg_e, c0, expr, expr2, steps, call, first,
                   result, nums, numeral, tc, tret>>

\* fresh(), line 8, in thread t: let c = COUNTER.load(SeqCst)
Load(t) ==
    /\ op = "fresh" /\ tpc[t] = "added"
    /\ tc' = [tc EXCEPT ![t] = COUNTER]
    /\ tpc' = [tpc EXCEPT ![t] = "loaded"]
    /\ UNCHANGED <<COUNTER, op, pc, self, arg_id, arg_e, c0, expr, expr2, steps, call,
                   first, result, nums, numeral, tret>>

\* fresh(), line 9, in thread t: format!("v{c}") is returned
Format(t) ==
    /\ op = "fresh" /\ tpc[t] = "loaded"
    /\ tret' = [tret EXCEPT ![t] = Append(@, FormatV(tc[t]))]
    /\ tpc' = [tpc EXCEPT ![t] = "idle"]
    /\ UNCHANGED <<COUNTER, op, pc, self, arg_id, arg_e, c0, expr, expr2, steps, call,
                   first, result, nums, numeral, tc>>

(***************************************************************************)
(* Specifications, one per operation under study.                          *)
(***************************************************************************)
NextSubst == Substitution
SpecSubst == InitSubst /\ [][NextSubst]_vars

NextEquiv == ExactEquivalence
SpecEquiv == InitEquiv /\ [][NextEquiv]_vars

NextFull == FullStart \/ FullWhile \/ FullReturn \/ CallAgain
SpecFull == InitFull /\ [][NextFull]_vars

NextNum == ToNumeral
SpecNum == InitNum /\ [][NextNum]_vars

NextAdd == FullStart \/ FullWhile \/ FullReturn \/ ToNumeral
SpecAdd == InitAdd /\ [][NextAdd]_vars

NextFresh == \E t \in Threads : FetchAdd(t) \/ Load(t) \/ Format(t)
SpecFresh == InitFresh /\ [][NextFresh]_vars

Init == InitSubst \/ InitEquiv \/ InitFull \/ InitNum \/ InitAdd \/ InitFresh
Next == NextSubst \/ NextEquiv \/ NextFull \/ NextNum \/ NextAdd \/ NextFresh
Spec == Init /\ [][Next]_vars

(***************************************************************************)
(* Reference notions the properties are stated with.                       *)
(***************************************************************************)
\* The nameless form with nearest-binder lookup: a bound variable is the number
\* of binders between it and its binder, a free variable keeps its name.
NearestDistance(ctx, id) ==
    Len(ctx) - (CHOOSE i \in DOMAIN ctx :
                    ctx[i] = id /\ \A j \in DOMAIN ctx : ctx[j] = id => j <= i)

RECURSIVE Nameless(_, _)
Nameless(e, ctx) ==
    IF e[1] = "Lam" THEN <<"Lam", Nameless(e[3], Append(ctx, e[2]))>>
    ELSE IF e[1] = "App" THEN <<"App", Nameless(e[2], ctx), Nameless(e[3], ctx)>>
    ELSE IF contains(ctx, e[2]) THEN <<"Bound", NearestDistance(ctx, e[2])>>
    ELSE <<"Free", e[2]>>

\* alpha-equivalence of named terms
AlphaEquivalent(a, b) == Nameless(a, <<>>) = Nameless(b, <<>>)

\* t[x := r] on nameless forms: every free x becomes r; r's free variables stay free
RECURSIVE NamelessSubst(_, _, _)
NamelessSubst(d, x, r) ==
    IF d[1] = "Lam" THEN <<"Lam", NamelessSubst(d[2], x, r)>>
    ELSE IF d[1] = "App" THEN <<"App", NamelessSubst(d[2], x, r), NamelessSubst(d[3], x, r)>>
    ELSE IF d[1] = "Free" /\ d[2] = x THEN r
    ELSE d

\* every identifier occurring in a term, as a binder or as a variable
RECURSIVE Idents(_)
Idents(e) ==
    IF e[1] = "Lam" THEN {e[2]} \cup Idents(e[3])
    ELSE IF e[1] = "App" THEN Idents(e[2]) \cup Idents(e[3])
    ELSE {e[2]}

RECURSIVE HasRedex(_)
HasRedex(e) ==
    IF e[1] = "Lam" THEN HasRedex(e[3])
    ELSE IF e[1] = "App" THEN e[2][1] = "Lam" \/ HasRedex(e[2]) \/ HasRedex(e[3])
    ELSE FALSE

Closed(e) == fv(e) = <<>>

\* f (f (... (f x))) with n applications
RECURSIVE RightNested(_, _, _)
RightNested(n, f, x) ==
    IF n = 0 THEN Var(x) ELSE App(Var(f), RightNested(n - 1, f, x))

IsChurchNumeral(t, n) ==
    /\ t[1] = "Lam"
    /\ t[3][1] = "Lam"
    /\ t[3][3] = RightNested(n, t[2], t[3][2])

\* the identifiers fresh() issued since the operation was called
IssuedIds == {FormatV(k) : k \in (c0 + 1) .. COUNTER}

(***************************************************************************)
(* Properties.                                                             *)
(***************************************************************************)
\* C1: substitution(t, x, r) is alpha-equivalent to the capture-avoiding
\* substitution t[x := r]: every free x of t is replaced by r and no free
\* variable of r becomes bound.
C1_SubstitutionIsCaptureAvoiding ==
    (op = "substitution" /\ pc = "done") =>
        Nameless(result, <<>>)
            = NamelessSubst(Nameless(self, <<>>), arg_id, Nameless(arg_e, <<>>))

\* C2: on closed terms exact_equivalence returns true exactly when the two terms
\* are equal up to renaming of bound variables, each variable referring to its
\* nearest enclosing binder of that name.
C2_ExactEquivalenceIsAlpha ==
    (op = "exact_equivalence" /\ pc # "call" /\ Closed(self) /\ Closed(arg_e)) =>
        /\ pc = "done"
        /\ result = AlphaEquivalent(self, arg_e)

\* C3: no two calls of fresh() return the same identifier, whatever the
\* interleaving of the threads calling it.
C3_FreshIdsDistinct ==
    \A t1 \in Threads, t2 \in Threads :
        \A i \in DOMAIN tret[t1], j \in DOMAIN tret[t2] :
            (t1 # t2 \/ i # j) => tret[t1][i] # tret[t2][j]

\* C7: to_numeral returns n only for a term of the shape λf.λx.f(f(...(f x)))
\* with n right-nested applications of the first parameter ending in the second
\* parameter; on every other term it fails.
C7_ToNumeralOnlyOnNumerals ==
    (op = "to_numeral" /\ pc = "decoded" /\ numeral.ok) =>
        IsChurchNumeral(self, numeral.n)

\* C9: each identifier substitution picks when it renames a binder differs from
\* every identifier occurring in the term substituted into and in the
\* replacement.
C9_RenameIsFreshForTheTerms ==
    (op = "substitution" /\ pc = "done") =>
        IssuedIds \cap (Idents(self) \cup Idents(arg_e)) = {}

\* C4: on a closed term on which full_reduction returns, full_reduction of the
\* returned term returns as well, without taking a loop iteration, and returns
\* that very term (same shape, same bound-variable names).
C4_FullReductionIdempotent ==
    (op = "full_reduction" /\ call = 2 /\ Closed(self)) =>
        /\ pc \in {"call", "test", "return", "done"}
        /\ steps = 0
        /\ pc = "test" => exact_equivalence(expr, expr2)
        /\ pc = "done" => result = first

\* C4 happens: the first call reduced a closed term, renaming a binder on the
\* way, and returned; the second call on the returned term has returned it again.
C4_Witness ==
    /\ op = "full_reduction" /\ call = 2 /\ pc = "done"
    /\ self = RenameUnderBinder /\ COUNTER > c0
    /\ first # self /\ result = first

\* C5 as written: full_reduction never returns on the self-application of the
\* omega combinator, and whenever it returns, the returned term contains no redex.
C5_NeverReturnsOnOmega ==
    op = "full_reduction" =>
        /\ self = Omega => pc \notin {"return", "done"}
        /\ pc = "done" => ~HasRedex(result)

\* C5 amended: on (λx.x x)(λx.x x) full_reduction returns before its first loop
\* iteration and returns that term, which contains a redex; on
\* (λx.x x x)(λx.x x x) it does not return within the MaxSteps iterations
\* followed; and whenever it returns, the returned term and its one-step reduct
\* have the same nameless form.
C5_ReturnsFixedPointOfStep ==
    op = "full_reduction" =>
        /\ self = Omega =>
              /\ pc \in {"call", "test", "return", "done"}
              /\ steps = 0
              /\ pc \in {"return", "done"} => expr = Omega /\ HasRedex(expr)
        /\ self = Omega3 => pc \in {"call", "test"}
        /\ pc \in {"return", "done"} =>
              /\ ~IsPanic(debrujin(expr))
              /\ debrujin(expr2) = debrujin(expr)

\* C5 amended happens: full_reduction has returned omega on omega.
C5_Witness ==
    /\ op = "full_reduction" /\ call = 1 /\ pc = "done"
    /\ self = Omega /\ result = Omega /\ HasRedex(result)

\* C6: full_reduction stops at a term whose one-step reduct is structurally
\* identical to it (same shape, same bound-variable names), never at one whose
\* reduct is only alpha-equivalent, and its test raises no failure on terms
\* with free variables.
C6_FixedPointTestIsStructural ==
    op = "full_reduction" =>
        /\ pc \in {"return", "done"} => expr2 = expr
        /\ pc # "panic"

\* C10: a reduction step introduces no free variable, so full_reduction on a
\* closed term never raises the unbound-variable failure.
C10_StepAddsNoFreeVariable ==
    op = "full_reduction" =>
        /\ pc = "test" =>
              \A i \in DOMAIN fv(expr2) : contains(fv(expr), fv(expr2)[i])
        /\ Closed(self) => pc # "panic"

\* C8: for m, n in 0..MaxNum, full_reduction of add applied to the Church
\* numerals of m and n returns within the iterations followed, and to_numeral of
\* what it returns is m + n, not a failure.
C8_AddIsCorrect ==
    op = "add" =>
        /\ pc # "panic"
        /\ (pc = "test" /\ steps = MaxSteps) => exact_equivalence(expr, expr2)
        /\ pc = "decoded" => numeral.ok /\ numeral.n = nums[1] + nums[2]

\* C8 happens: the sum of 5 and 7 was reduced and decoded.
C8_Witness ==
    /\ op = "add" /\ pc = "decoded" /\ nums = <<5, 7>>
    /\ numeral.ok /\ numeral.n = 12

====
